---- MODULE Spec2Model ----
(***************************************************************************)
(* checks/block-height.py: one JSON-RPC eth_blockNumber request to a fixed *)
(* endpoint, the hexadecimal result decoded, printed, and mapped to the    *)
(* process exit status.                                                    *)
(*                                                                         *)
(* The script is a straight line of four statements; pc names the line     *)
(* about to run.  The one blocking statement (requests.post, lines 6-15)   *)
(* is split at the points where the process waits on the network.          *)
(*                                                                         *)
(* timeout=10 is handed to requests as a single number: it is used as the  *)
(* connect timeout and as the read timeout, and the read timeout bounds    *)
(* the wait for the next bytes on the socket, not the whole response.      *)
(* `idle` is the wait of the current socket operation, `elapsed` the time  *)
(* since the call.  requests.post does not look at the HTTP status (there  *)
(* is no raise_for_status), and an exception nothing catches ends the      *)
(* interpreter with status 1.                                              *)
(***************************************************************************)
EXTENDS Integers, Sequences, FiniteSets, TLC

\* ------------------------------------------------------------------ bounds
\* Longest `result` string the endpoint sends under Spec.
MaxLen == 3
\* Longest `result` string decoded under SpecDecode.
MaxHexLen == 5
\* Time units the model lets pass while the process is blocked on the network.
MaxWait == 12

\* --------------------------------------------------------- program constants
\* timeout=10 (line 14).
Timeout == 10

\* Characters the endpoint's `result` strings are drawn from.
Chars == {"0", "1", "a", "x", "-", "_", " "}

SeqsUpTo(n) == UNION {[1..k -> Chars] : k \in 0..n}

\* HTTP statuses the endpoint answers with.
StatusCodes == {200, 500}

None == [some |-> FALSE]
Some(v) == [some |-> TRUE, val |-> v]

VARIABLES
    pc,             \* the line about to run, or the network wait within lines 6-15
    elapsed,        \* time units since requests.post was called
    idle,           \* time units the current socket operation has waited
    requests_sent,  \* outbound requests issued so far
    response,       \* the Response requests.post returned, if any
    block_number,   \* line 16's variable, once bound
    stdout,         \* the lines printed so far
    raised,         \* the exception that ended the process, if any
    exit_code       \* the process's exit status, once it has ended

vars == <<pc, elapsed, idle, requests_sent, response, block_number, stdout,
          raised, exit_code>>

\* ---------------------------------------------------------------- results
\* A Python expression either yields a value or raises.
Ok(v) == [ok |-> TRUE, val |-> v]
Err(e) == [ok |-> FALSE, exc |-> e]

\* ------------------------------------------------------ int(<str>, 16), line 16
LowerDigits == <<"0", "1", "2", "3", "4", "5", "6", "7", "8", "9",
                 "a", "b", "c", "d", "e", "f">>
UpperDigits == <<"0", "1", "2", "3", "4", "5", "6", "7", "8", "9",
                 "A", "B", "C", "D", "E", "F">>

\* The value of a digit character, or 37 for a character that is no digit in any
\* base (the interpreter's digit table).
DigitValue(c) ==
    IF \E i \in 1..16 : LowerDigits[i] = c
    THEN (CHOOSE i \in 1..16 : LowerDigits[i] = c) - 1
    ELSE IF \E i \in 1..16 : UpperDigits[i] = c
    THEN (CHOOSE i \in 1..16 : UpperDigits[i] = c) - 1
    ELSE 37

Whitespace == {" ", "\t", "\n", "\r"}

RECURSIVE StripLeft(_)
StripLeft(s) ==
    IF s # <<>> /\ Head(s) \in Whitespace THEN StripLeft(Tail(s)) ELSE s

RECURSIVE StripRight(_)
StripRight(s) ==
    IF s # <<>> /\ s[Len(s)] \in Whitespace
    THEN StripRight(SubSeq(s, 1, Len(s) - 1))
    ELSE s

Drop(s, n) == SubSeq(s, n + 1, Len(s))

\* Faulty variant of ScanDigits: the digits accumulated in base 10.
RECURSIVE ScanDigitsBase10(_, _, _, _)
ScanDigitsBase10(s, i, acc, prev) ==
    IF i > Len(s)
    THEN IF prev = "_" THEN Err("ValueError") ELSE Ok(acc)
    ELSE IF s[i] = "_"
    THEN IF prev = "_" THEN Err("ValueError")
         ELSE ScanDigitsBase10(s, i + 1, acc, "_")
    ELSE IF DigitValue(s[i]) < 16
    THEN ScanDigitsBase10(s, i + 1, acc * 10 + DigitValue(s[i]), s[i])
    ELSE Err("ValueError")

\* The digits, left to right, single underscores allowed between them.
RECURSIVE ScanDigits(_, _, _, _)
ScanDigits(s, i, acc, prev) ==
    IF i > Len(s)
    THEN IF prev = "_" THEN Err("ValueError") ELSE Ok(acc)
    ELSE IF s[i] = "_"
    THEN IF prev = "_" THEN Err("ValueError") ELSE ScanDigits(s, i + 1, acc, "_")
    ELSE IF DigitValue(s[i]) < 16
    THEN ScanDigits(s, i + 1, acc * 16 + DigitValue(s[i]), s[i])
    ELSE Err("ValueError")

\* After the sign: an optional 0x/0X, one optional underscore behind it, digits.
Unsigned16(s) ==
    LET hasPrefix == Len(s) >= 2 /\ s[1] = "0" /\ s[2] \in {"x", "X"}
        t == IF hasPrefix THEN Drop(s, 2) ELSE s
        u == IF hasPrefix /\ t # <<>> /\ t[1] = "_" THEN Drop(t, 1) ELSE t
    IN  IF u = <<>> \/ u[1] = "_"
        THEN Err("ValueError")
        ELSE ScanDigits(u, 1, 0, "")

\* int(s, 16) for a str s: surrounding whitespace, an optional sign, the number.
IntBase16(s) ==
    LET t == StripRight(StripLeft(s))
        signed == t # <<>> /\ t[1] \in {"+", "-"}
        r == Unsigned16(IF signed THEN Drop(t, 1) ELSE t)
    IN  IF r.ok /\ signed /\ t[1] = "-" THEN Ok(0 - r.val) ELSE r

\* ------------------------------------------------- response.json()["result"]
\* A response body, by what the JSON parser makes of it: text that is no JSON,
\* a JSON array, or a JSON object with its members.
JString(s) == [type |-> "string", chars |-> s]
JNull == [type |-> "null"]
JNumber == [type |-> "number"]

TextBody == [form |-> "text"]
ArrayBody == [form |-> "array"]
ObjectBody(members) == [form |-> "object", members |-> members]

\* response.json(): the parsed body, or JSONDecodeError.
Json(body) ==
    IF body.form = "text" THEN Err("JSONDecodeError") ELSE Ok(body)

\* Faulty variant of GetItem: a missing key read with a default, as
\* value.get(key, "0x0") would.
GetItemDefault(value, key) ==
    IF value.form # "object" THEN Err("TypeError")
    ELSE IF key \in DOMAIN value.members THEN Ok(value.members[key])
    ELSE Ok(JString(<<"0", "x", "0">>))

\* value[key]: a list takes no string index, a dict has the key or not.
GetItem(value, key) ==
    IF value.form # "object" THEN Err("TypeError")
    ELSE IF key \in DOMAIN value.members THEN Ok(value.members[key])
    ELSE Err("KeyError")

\* int(x, 16): a non-string with an explicit base is a TypeError.
Int16(x) ==
    IF x.type # "string" THEN Err("TypeError") ELSE IntBase16(x.chars)

\* The right-hand side of line 16, evaluated inside out.
Decode(body) ==
    LET j == Json(body)
    IN  IF ~j.ok THEN j
        ELSE LET r == GetItem(j.val, "result")
             IN  IF ~r.ok THEN r ELSE Int16(r.val)

\* ------------------------------------------------------------ line 17, line 19
\* Faulty variant of DecimalDigits: least significant digit first.
RECURSIVE DecimalDigitsReversed(_)
DecimalDigitsReversed(n) ==
    IF n < 10 THEN <<LowerDigits[n + 1]>>
    ELSE <<LowerDigits[(n % 10) + 1]>> \o DecimalDigitsReversed(n \div 10)

\* str(n) for a non-negative n, most significant digit first.
RECURSIVE DecimalDigits(_)
DecimalDigits(n) ==
    IF n < 10 THEN <<LowerDigits[n + 1]>>
    ELSE DecimalDigits(n \div 10) \o <<LowerDigits[(n % 10) + 1]>>

\* str(n).
Str(n) == IF n < 0 THEN <<"-">> \o DecimalDigits(0 - n) ELSE DecimalDigits(n)

\* f"block_number: {block_number}": the literal, then the number's digits.
FormatLine(n) == <<"block_number: ">> \o Str(n)

\* Faulty variants of ExitStatus: `>= 0` for `> 0`, and `!= 0` for `> 0`.
ExitStatusNonNegative(n) == IF n >= 0 THEN 0 ELSE 1
ExitStatusNonZero(n) == IF n # 0 THEN 0 ELSE 1

\* 0 if block_number > 0 else 1.
ExitStatus(n) == IF n > 0 THEN 0 ELSE 1

\* ------------------------------------------------------------------ inputs
\* The bodies an endpoint may answer with, `result` strings up to length n.
Bodies(n) ==
    {TextBody, ArrayBody,
     ObjectBody([error |-> JNull]),
     ObjectBody([result |-> JNull]),
     ObjectBody([result |-> JNumber])}
    \cup {ObjectBody([result |-> JString(s)]) : s \in SeqsUpTo(n)}

\* ------------------------------------------------------------------- state
Init ==
    /\ pc = "line6"
    /\ elapsed = 0
    /\ idle = 0
    /\ requests_sent = 0
    /\ response = None
    /\ block_number = None
    /\ stdout = <<>>
    /\ raised = None
    /\ exit_code = None

\* Faulty variant of Raise: the exception caught around the script and turned
\* into sys.exit(1).
RaiseCaught(e) ==
    /\ pc' = "done"
    /\ raised' = raised
    /\ exit_code' = Some(1)

\* An exception nothing catches: the interpreter writes the traceback to stderr
\* and the process ends with status 1.
Raise(e) ==
    /\ pc' = "done"
    /\ raised' = Some(e)
    /\ exit_code' = Some(1)

\* ------------------------------------------------- requests.post, lines 6-15
\* The call: one POST is issued and the process blocks on the connection.
Post ==
    /\ pc = "line6"
    /\ pc' = "connect"
    /\ requests_sent' = requests_sent + 1
    /\ elapsed' = 0
    /\ idle' = 0
    /\ UNCHANGED <<response, block_number, stdout, raised, exit_code>>

\* A time unit passes while the process waits on the socket.
Tick ==
    /\ pc \in {"connect", "read"}
    /\ idle < Timeout
    /\ elapsed < MaxWait
    /\ idle' = idle + 1
    /\ elapsed' = elapsed + 1
    /\ UNCHANGED <<pc, requests_sent, response, block_number, stdout, raised,
                   exit_code>>

\* The connection is established within the connect timeout; the request is
\* written and the process waits for the response under the read timeout.
ConnectOK ==
    /\ pc = "connect"
    /\ idle < Timeout
    /\ pc' = "read"
    /\ idle' = 0
    /\ UNCHANGED <<elapsed, requests_sent, response, block_number, stdout,
                   raised, exit_code>>

\* Faulty variant of ConnectFail: the failed connection answered with another
\* attempt.
ConnectFailRetry ==
    /\ pc = "connect"
    /\ idle < Timeout
    /\ pc' = "line6"
    /\ UNCHANGED <<elapsed, idle, requests_sent, response, block_number, stdout,
                   raised, exit_code>>

\* Network unreachable, connection refused, TLS failure.
ConnectFail ==
    /\ pc = "connect"
    /\ idle < Timeout
    /\ Raise("ConnectionError")
    /\ UNCHANGED <<elapsed, idle, requests_sent, response, block_number, stdout>>

\* timeout=10 as the connect timeout: no connection after 10 units.
ConnectTimeout ==
    /\ pc = "connect"
    /\ idle = Timeout
    /\ Raise("ConnectTimeout")
    /\ UNCHANGED <<elapsed, idle, requests_sent, response, block_number, stdout>>

\* Part of the response arrives: the read timeout bounds the wait for the next
\* bytes on the socket, so the wait starts again.
RecvBytes ==
    /\ pc = "read"
    /\ 0 < idle /\ idle < Timeout
    /\ idle' = 0
    /\ UNCHANGED <<pc, elapsed, requests_sent, response, block_number, stdout,
                   raised, exit_code>>

\* The connection breaks while the response is awaited.
ReadFail ==
    /\ pc = "read"
    /\ idle < Timeout
    /\ Raise("ConnectionError")
    /\ UNCHANGED <<elapsed, idle, requests_sent, response, block_number, stdout>>

\* timeout=10 as the read timeout: no bytes for 10 units.
ReadTimeout ==
    /\ pc = "read"
    /\ idle = Timeout
    /\ Raise("ReadTimeout")
    /\ UNCHANGED <<elapsed, idle, requests_sent, response, block_number, stdout>>

\* Faulty variant of RecvDone: the status checked as raise_for_status() would.
RecvDoneRaiseForStatus ==
    /\ pc = "read"
    /\ idle < Timeout
    /\ idle' = 0
    /\ \E status \in StatusCodes, body \in Bodies(MaxLen) :
           /\ response' = Some([status_code |-> status, body |-> body])
           /\ IF status >= 400
              THEN Raise("HTTPError")
              ELSE pc' = "line16" /\ UNCHANGED <<raised, exit_code>>
    /\ UNCHANGED <<elapsed, requests_sent, block_number, stdout>>

\* The response is complete: requests.post returns it, whatever its status.
RecvDone ==
    /\ pc = "read"
    /\ idle < Timeout
    /\ \E status \in StatusCodes, body \in Bodies(MaxLen) :
           response' = Some([status_code |-> status, body |-> body])
    /\ pc' = "line16"
    /\ idle' = 0
    /\ UNCHANGED <<elapsed, requests_sent, block_number, stdout, raised,
                   exit_code>>

\* ------------------------------------------------------------------ line 16
\* block_number = int(response.json()["result"], 16)
Line16 ==
    /\ pc = "line16"
    /\ LET r == Decode(response.val.body)
       IN  IF r.ok
           THEN /\ block_number' = Some(r.val)
                /\ pc' = "line17"
                /\ UNCHANGED <<raised, exit_code>>
           ELSE /\ Raise(r.exc)
                /\ UNCHANGED block_number
    /\ UNCHANGED <<elapsed, idle, requests_sent, response, stdout>>

\* Faulty variant of Line17: the line printed only for a positive height.
Line17OnlyPositive ==
    /\ pc = "line17"
    /\ stdout' = IF block_number.val > 0
                 THEN Append(stdout, FormatLine(block_number.val))
                 ELSE stdout
    /\ pc' = "line19"
    /\ UNCHANGED <<elapsed, idle, requests_sent, response, block_number, raised,
                   exit_code>>

\* ------------------------------------------------------------------ line 17
\* print(f"block_number: {block_number}")
Line17 ==
    /\ pc = "line17"
    /\ stdout' = Append(stdout, FormatLine(block_number.val))
    /\ pc' = "line19"
    /\ UNCHANGED <<elapsed, idle, requests_sent, response, block_number, raised,
                   exit_code>>

\* ------------------------------------------------------------------ line 19
\* sys.exit(0 if block_number > 0 else 1)
Line19 ==
    /\ pc = "line19"
    /\ exit_code' = Some(ExitStatus(block_number.val))
    /\ pc' = "done"
    /\ UNCHANGED <<elapsed, idle, requests_sent, response, block_number, stdout,
                   raised>>

Next ==
    \/ Post
    \/ Tick
    \/ ConnectOK
    \/ ConnectFail
    \/ ConnectTimeout
    \/ RecvBytes
    \/ ReadFail
    \/ ReadTimeout
    \/ RecvDone
    \/ Line16
    \/ Line17
    \/ Line19

Spec == Init /\ [][Next]_vars

\* ------------------------------------------------- line 16 on longer strings
\* The documented response: {"result": "0x1a2b3c"}.
Examples == {<<"0", "x", "1", "a", "2", "b", "3", "c">>}

\* The process at line 16 holding a complete response, `result` strings up to
\* MaxHexLen; the network wait that led there is behind it.
InitDecode ==
    /\ pc = "line16"
    /\ elapsed = 0
    /\ idle = 0
    /\ requests_sent = 1
    /\ \E s \in SeqsUpTo(MaxHexLen) \cup Examples :
           response = Some([status_code |-> 200,
                            body |-> ObjectBody([result |-> JString(s)])])
    /\ block_number = None
    /\ stdout = <<>>
    /\ raised = None
    /\ exit_code = None

NextDecode == Line16 \/ Line17 \/ Line19

SpecDecode == InitDecode /\ [][NextDecode]_vars

\* =================================================================== claims
\* What the properties below say about a state, in their own terms.

\* The process has ended with status c.
Exited(c) == pc = "done" /\ exit_code.some /\ exit_code.val = c

\* The process has ended with a status other than 0.
ExitedNonZero == pc = "done" /\ exit_code.some /\ exit_code.val # 0

\* The process ended through sys.exit on line 19, not through an exception.
DesignedExit == pc = "done" /\ ~raised.some

\* No line has been printed.
NothingPrinted == stdout = <<>>

\* A response was received and this is its body.
Received == response.some
Body == response.val.body

\* The body is JSON, an object, with a `result` that is a string.
HasResultString(body) ==
    /\ body.form = "object"
    /\ "result" \in DOMAIN body.members
    /\ body.members["result"].type = "string"

ResultChars(body) == body.members["result"].chars

\* The body is JSON with a `result` string that base 16 accepts.
Decodable(body) ==
    HasResultString(body) /\ IntBase16(ResultChars(body)).ok

\* The height a decodable body carries.
HeightOf(body) == IntBase16(ResultChars(body)).val

\* The number a printed decimal numeral denotes, read digit by digit.
DecimalChars == <<"0", "1", "2", "3", "4", "5", "6", "7", "8", "9">>
DecimalOf(c) == (CHOOSE i \in 1..10 : DecimalChars[i] = c) - 1
RECURSIVE NumeralValue(_)
NumeralValue(d) ==
    IF d = <<>> THEN 0
    ELSE 10 * NumeralValue(SubSeq(d, 1, Len(d) - 1)) + DecimalOf(d[Len(d)])
IsNumeral(d) ==
    /\ d # <<>>
    /\ \A i \in 1..Len(d) : \E k \in 1..10 : DecimalChars[k] = d[i]
    /\ (Len(d) > 1 => d[1] # "0")

\* The line is `block_number: <integer>` and carries n.
IsHeightLine(line, n) ==
    /\ Len(line) >= 2
    /\ line[1] = "block_number: "
    /\ LET d == Tail(line)
       IN  IF d[1] = "-"
           THEN IsNumeral(Tail(d)) /\ n = 0 - NumeralValue(Tail(d)) /\ n < 0
           ELSE IsNumeral(d) /\ n = NumeralValue(d)

ZeroBody == ObjectBody([result |-> JString(<<"0", "x", "0">>)])

C3_ZeroPrintsThenExitsOne ==
    /\ (pc = "done" /\ Received /\ Body = ZeroBody) =>
           (stdout = << <<"block_number: ", "0">> >> /\ Exited(1) /\ DesignedExit)
    /\ (pc \in {"line19", "done"} /\ block_number.some /\ block_number.val <= 0) =>
           (Len(stdout) = 1 /\ IsHeightLine(stdout[1], block_number.val))
    /\ (DesignedExit /\ Exited(1)) =>
           (block_number.some /\ block_number.val <= 0 /\ Len(stdout) = 1)

\* C3 witness: the "0x0" response handled to the end.
C3_Witness ==
    Exited(1) /\ DesignedExit /\ Received /\ Body = ZeroBody /\ Len(stdout) = 1

\* ----------------------------------------------------------------------- C4
\* C4: for a response that is not JSON, or JSON without `result`, or with a
\* `result` base 16 does not accept, the process ends with a non-zero status,
\* the `block_number:` line is never printed, and nothing is attempted again.
C4_BadBodyFailsSilently ==
    (Received /\ ~Decodable(Body)) =>
        /\ NothingPrinted
        /\ ~block_number.some
        /\ requests_sent = 1
        /\ pc \in {"line16", "done"}
        /\ (pc = "done" => ExitedNonZero /\ raised.some)

\* C4 witness: a JSON object without `result` ended the process.
C4_Witness ==
    /\ ExitedNonZero
    /\ Received
    /\ Body = ObjectBody([error |-> JNull])
    /\ raised = Some("KeyError")

FaultBeforeCheck == ~Received \/ ~Decodable(Body)

\* C2 as stated: exit code 1 is reserved for the height-not-positive case - the
\* process ends with exit code 1 only when a height was decoded and found not
\* positive.
C2_ExitOneReserved ==
    Exited(1) => (block_number.some /\ block_number.val <= 0)

\* C2 as amended: the designed sys.exit(1) of line 19 is taken only when a
\* height was decoded and found not positive; every fault before the check ends
\* the process through an unhandled exception with a non-zero status and without
\* reaching line 19 - and that status is the interpreter's 1, the same number.
C2_DesignedExitOne ==
    pc = "done" =>
        /\ (Exited(1) /\ DesignedExit) =>
               (block_number.some /\ block_number.val <= 0)
        /\ FaultBeforeCheck =>
               (raised.some /\ ExitedNonZero /\ ~block_number.some)
        /\ raised.some => (FaultBeforeCheck /\ Exited(1))

\* C2 witness: both ways of ending with status 1 - here the unhandled fault.
C2_Witness ==
    Exited(1) /\ raised = Some("JSONDecodeError") /\ ~block_number.some

\* ----------------------------------------------------------------------- C5
ConnectionFailed ==
    raised.some /\ raised.val \in {"ConnectionError", "ConnectTimeout"}

C8_RoundTripBounded ==
    (pc = "done" /\ elapsed > Timeout) => (ExitedNonZero /\ NothingPrinted)

\* ----------------------------------------------------------------------- C9
\* A 0x-prefixed hexadecimal numeral and the integer it denotes, by place value.
HexChars == {"0", "1", "2", "3", "4", "5", "6", "7", "8", "9",
             "a", "b", "c", "d", "e", "f", "A", "B", "C", "D", "E", "F"}
IsPrefixedHex(s) ==
    /\ Len(s) >= 3
    /\ s[1] = "0"
    /\ s[2] = "x"
    /\ \A i \in 3..Len(s) : s[i] \in HexChars
PlaceValue(c) ==
    CASE c \in {"a", "A"} -> 10 [] c \in {"b", "B"} -> 11 [] c \in {"c", "C"} -> 12
      [] c \in {"d", "D"} -> 13 [] c \in {"e", "E"} -> 14 [] c \in {"f", "F"} -> 15
      [] OTHER -> DecimalOf(c)
RECURSIVE Power16(_)
Power16(k) == IF k = 0 THEN 1 ELSE 16 * Power16(k - 1)
RECURSIVE PlaceSum(_, _)
PlaceSum(s, i) ==
    IF i > Len(s) THEN 0
    ELSE PlaceValue(s[i]) * Power16(Len(s) - i) + PlaceSum(s, i + 1)
StandardValue(s) == PlaceSum(s, 3)

\* The example of the data model: "0x1a2b3c".
ExampleHex == <<"0", "x", "1", "a", "2", "b", "3", "c">>

LeadingChar(s) == LET t == StripLeft(s) IN IF t = <<>> THEN "" ELSE t[1]

\* C10 as stated: the decoded height is never negative, so the exit-1 branch is
\* taken only for a height of exactly zero.
C10_HeightNonNegative ==
    block_number.some =>
        /\ block_number.val >= 0
        /\ (Exited(1) /\ DesignedExit) => block_number.val = 0

\* C10 as amended: the decoded height is an integer, non-negative unless the
\* result string carries a leading minus sign, which the decoder accepts; the
\* exit-1 branch is taken exactly when the height is zero or negative.
C10_HeightSigned ==
    block_number.some =>
        /\ block_number.val < 0 => LeadingChar(ResultChars(Body)) = "-"
        /\ LeadingChar(ResultChars(Body)) # "-" => block_number.val >= 0
        /\ DesignedExit => (Exited(1) <=> block_number.val <= 0)
        /\ DesignedExit => (Exited(0) <=> block_number.val > 0)

\* C10 witness: a negative height decoded, printed and answered with exit 1.
C10_Witness ==
    /\ Exited(1)
    /\ DesignedExit
    /\ block_number.some
    /\ block_number.val < 0
    /\ Len(stdout) = 1

====
